---- MODULE Spec2Model ----
(***************************************************************************)
(* Model of the SQS consumer of challenge-4-orchestrator: the poll loop    *)
(* (Start, pollMessages), the per-message pipeline (processMessage,        *)
(* handleBusinessLogic, deleteMessage), the Lambda client (InvokeSync) and *)
(* the external services it talks to (queue, registry table, validator,   *)
(* workers, shutdown signal).                                              *)
(***************************************************************************)
EXTENDS Integers, Sequences, FiniteSets, TLC

\* ---------------------------------------------------------------- bounds
MaxMsgs == 2
NumLambdas == 2

\* ------------------------------------------------------------- constants
MaxNumberOfMessages == 10
StatusOK == 200

MsgIds == 1..MaxMsgs

\* Go pointers (*string): the nil pointer and a pointer to a value.
None == <<>>
Some(x) == <<x>>

\* The validator's function name (target 0); a worker is addressed by the
\* ARN of its registry record (its position in the table, 1..NumLambdas).
IntegrityLambda == 0

\* type Status
Healthy == "saludable"
Unhealthy == "fallando"

\* ------------------------------------------------------------------ JSON
\* Message bodies are byte strings, modelled as token sequences over
\* " " (whitespace), "n" (a number literal), "{" and "}".
Bodies ==
  { None, Some(<<>>), Some(<<"{">>), Some(<<" ", "n">>) }

StripSpace(s) == SelectSeq(s, LAMBDA t : t # " ")

\* json.Unmarshal(bytes, &any): the decoded Go value, or an error.
jsonUnmarshal(s) ==
  LET t == StripSpace(s) IN
    IF t = <<"n">> THEN [err |-> FALSE, val |-> "float64"]
    ELSE IF t = <<"{", "}">> THEN [err |-> FALSE, val |-> "map"]
    ELSE IF t = <<"null">> THEN [err |-> FALSE, val |-> "nil"]
    ELSE [err |-> TRUE, val |-> "nil"]

\* json.Marshal(value): the canonical encoding of a decoded value.
jsonMarshal(v) ==
  IF v = "float64" THEN <<"n">>
  ELSE IF v = "map" THEN <<"{", "}">>
  ELSE <<"null">>

\* What a Lambda invocation can answer: a transport error, a response that
\* carries FunctionError, or a response payload.  The payload is JSON text;
\* json is its shape and statusCode the literal text of its statusCode
\* member ("absent" when there is none).
NoAnswer == [transport |-> FALSE, FunctionError |-> FALSE,
             json |-> "none", statusCode |-> "absent"]
TransportError == [NoAnswer EXCEPT !.transport = TRUE]
FunctionErrorAnswer == [NoAnswer EXCEPT !.FunctionError = TRUE, !.json = "object"]
PayloadAnswer(j, sc) == [NoAnswer EXCEPT !.json = j, !.statusCode = sc]

ValidatorAnswers ==
  { TransportError, FunctionErrorAnswer,
    PayloadAnswer("invalid", "absent"),
    PayloadAnswer("object", "absent"), PayloadAnswer("object", "200"),
    PayloadAnswer("object", "500"), PayloadAnswer("object", "\"200\"") }

WorkerAnswers ==
  { TransportError, FunctionErrorAnswer,
    PayloadAnswer("object", "200"), PayloadAnswer("object", "500") }

\* Answers of the queue and of the table: the call fails or succeeds.
PlainAnswers == { TransportError, PayloadAnswer("none", "absent") }

\* json.Unmarshal(payload, &LambdaResponse)
unmarshalLambdaResponse(a) ==
  IF a.json = "invalid" THEN [err |-> TRUE, StatusCode |-> 0]
  ELSE IF a.json = "null" THEN [err |-> FALSE, StatusCode |-> 0]
  ELSE IF a.statusCode = "absent" THEN [err |-> FALSE, StatusCode |-> 0]
  ELSE IF a.statusCode = "200" THEN [err |-> FALSE, StatusCode |-> 200]
  ELSE IF a.statusCode = "500" THEN [err |-> FALSE, StatusCode |-> 500]
  ELSE [err |-> TRUE, StatusCode |-> 0]

\* ----------------------------------------------------------------- state
VARIABLES
  queueState,     \* queue: per message id "queued" or "deleted"
  queueBody,      \* queue: the body of each message
  registry,       \* registry table: the estadoSalud of each record, in key order
  cancelled,      \* ctx.Done() is closed
  pc,             \* position of the consumer goroutine
  batch,          \* result.Messages still to be processed, by message id
  message,        \* the message being processed (a sequence of 0 or 1 message)
  appMessage,     \* processMessage: the decoded body
  items,          \* handleBusinessLogic: the records the scan returned
  selectedLambda, \* handleBusinessLogic: ARN of the chosen descriptor (0: none)
  err,            \* processMessage: the error handleBusinessLogic returned
  calls,          \* the external calls of the current processing attempt
  lastAttempt     \* the tail of the log when an attempt begins: what the
                  \* preceding attempt left behind, <<>> (its message is
                  \* deleted) or << message id, outcome >>

vars == << queueState, queueBody, registry, cancelled, pc, batch, message,
           appMessage, items, selectedLambda, err, calls, lastAttempt >>

queueVars == << queueState, queueBody >>
localVars == << appMessage, items, selectedLambda, err >>

\* The tables the registry can hold: up to NumLambdas records.
Tables == UNION { [1..n -> { Healthy, Unhealthy }] : n \in 0..NumLambdas }

\* ------------------------------------------------------------ ctx and log
\* Every SDK call receives ctx: once ctx is cancelled the call returns the
\* context error instead of the service's answer.
CtxAnswer(svc) == IF cancelled THEN TransportError ELSE svc

\* An entry of the call log: answer is what the call returned, ok whether
\* the code went on after it, svcOk whether it would have gone on with the
\* answer of the service.
Call(op, target, payload, svc, ok, svcOk) ==
  [op |-> op, target |-> target, payload |-> payload,
   answer |-> CtxAnswer(svc), ok |-> ok, svcOk |-> svcOk]

\* Mutant: InvokeSync without the FunctionError check.
InvokeSyncErrTransportOnly(a) == a.transport

\* LambdaClient.InvokeSync: err # nil on a transport error or FunctionError.
InvokeSyncErr(a) == a.transport \/ a.FunctionError

\* ------------------------------------------------------------------ Init
Init ==
  /\ queueState = [m \in MsgIds |-> "queued"]
  /\ queueBody \in [MsgIds -> Bodies]
  /\ registry \in Tables
  /\ cancelled = FALSE
  /\ pc = "Start"
  /\ batch = <<>>
  /\ message = <<>>
  /\ appMessage = "nil"
  /\ items = <<>>
  /\ selectedLambda = 0
  /\ err = ""
  /\ calls = <<>>
  /\ lastAttempt = <<>>

\* ----------------------------------------------------------- environment
\* One write to the table: a record's estadoSalud changes, a record is added
\* or a record is removed.
OneWrite(r, t) ==
  \/ /\ Len(t) = Len(r)
     /\ Cardinality({ i \in 1..Len(r) : t[i] # r[i] }) = 1
  \/ /\ Len(t) = Len(r) + 1
     /\ SubSeq(t, 1, Len(r)) = r
  \/ /\ Len(r) = Len(t) + 1
     /\ SubSeq(r, 1, Len(t)) = t

\* The heartbeat reporters write the registry table.
Heartbeat(t) ==
  /\ OneWrite(registry, t)
  /\ registry' = t
  /\ UNCHANGED << lastAttempt, queueVars, cancelled, pc, batch, message, localVars, calls >>

\* main: the signal goroutine calls cancel().
Cancel ==
  /\ ~cancelled
  /\ cancelled' = TRUE
  /\ UNCHANGED << lastAttempt, queueVars, registry, pc, batch, message, localVars, calls >>

\* ---------------------------------------------------------------- queue
\* The ids of S in ascending order.
RECURSIVE SetToSeq(_)
SetToSeq(S) ==
  IF S = {} THEN <<>>
  ELSE LET m == CHOOSE x \in S : \A y \in S : x <= y
       IN <<m>> \o SetToSeq(S \ {m})

\* types.Message as the queue delivers it; h tells whether the delivery
\* carries a receipt handle.
Delivery(m, h) ==
  [MessageId |-> m, Body |-> queueBody[m],
   ReceiptHandle |-> IF h THEN Some(m) ELSE None]

\* The messages a receive call can return: those on the queue whose
\* visibility timeout has elapsed, which is the queue's choice.
QueuedMsgs == { m \in MsgIds : queueState[m] = "queued" }

\* ------------------------------------------------------------- registry
\* DynamoDBClient.Scan: the records of the table, in key order; bad is the
\* first record whose attributes do not have the types of the Lambda struct
\* (0: there is none).
ScanItems(bad) ==
  [i \in 1..Len(registry) |->
     [arn |-> i, estadoSalud |-> registry[i], wellTyped |-> i # bad]]

\* attributevalue.UnmarshalMap(item, &lambda)
unmarshalMapErr(item) == ~item.wellTyped

\* The loop of handleBusinessLogic returns at the first undecodable record.
anyUnmarshalErr(its) == \E i \in 1..Len(its) : unmarshalMapErr(its[i])

\* Mutant: the health test compares with the wrong status.
isHealthyInverted(item) == item.estadoSalud = Unhealthy

\* if lambda.Status == Healthy { lambdas = append(lambdas, lambda) }
isHealthy(item) == item.estadoSalud = Healthy

\* Mutant: the loop appends every record.
filterHealthyAll(its) == its

filterHealthy(its) == SelectSeq(its, isHealthy)

\* Mutant: the random index is drawn below len(lambdas) - 1.
selectLambdaSkipsLast(ls) ==
  IF Len(ls) = 1 THEN { ls[1] }
  ELSE { ls[k + 1] : k \in 0..(Len(ls) - 2) }

\* Mutant: case 1 leaves selectedLambda at its zero value.
selectLambdaZero(ls) ==
  IF Len(ls) = 1 THEN { [ls[1] EXCEPT !.arn = 0] }
  ELSE { ls[k + 1] : k \in 0..(Len(ls) - 1) }

\* switch len(lambdas): case 1 takes lambdas[0], default takes
\* lambdas[rand.Intn(len(lambdas))].
selectLambda(ls) ==
  IF Len(ls) = 1 THEN { ls[1] }
  ELSE { ls[k + 1] : k \in 0..(Len(ls) - 1) }

\* Mutant: the gate without the status code test.
integrityErrAnyStatus(a) ==
  IF InvokeSyncErr(a) THEN "error calling the integrity lambda"
  ELSE IF unmarshalLambdaResponse(a).err THEN "error unmarshalling json"
  ELSE ""

\* handleBusinessLogic's integrity gate on what InvokeSync returned: the
\* error it returns ("" for nil).
integrityErr(a) ==
  IF InvokeSyncErr(a) THEN "error calling the integrity lambda"
  ELSE IF unmarshalLambdaResponse(a).err THEN "error unmarshalling json"
  ELSE IF unmarshalLambdaResponse(a).StatusCode # StatusOK
  THEN "not matching signatures"
  ELSE ""

\* -------------------------------------------------------------- consumer
\* Mutant: the loop without the ctx.Done() case.
StartIgnoresDone ==
  /\ pc = "Start"
  /\ pc' = "ReceiveMessage"
  /\ UNCHANGED << lastAttempt, queueVars, registry, cancelled, batch, message, localVars,
                  calls >>

\* Start: one iteration of the for/select loop.
Start ==
  /\ pc = "Start"
  /\ pc' = IF cancelled THEN "done" ELSE "ReceiveMessage"
  /\ UNCHANGED << lastAttempt, queueVars, registry, cancelled, batch, message, localVars,
                  calls >>

\* Mutant: the early return on a receive error is missing.
pollMessagesIgnoresErr ==
  /\ pc = "ReceiveMessage"
  /\ \E svc \in PlainAnswers, S \in SUBSET QueuedMsgs :
       /\ Cardinality(S) <= MaxNumberOfMessages
       /\ pc' = "range"
       /\ err' = IF CtxAnswer(svc).transport
                 THEN "failed to receive messages" ELSE ""
       /\ batch' = SetToSeq(S)
  /\ UNCHANGED << lastAttempt, queueVars, registry, cancelled, message,
                  appMessage, items, selectedLambda, calls >>

\* pollMessages: the receive call; on error log it and go to sleep.
pollMessages ==
  /\ pc = "ReceiveMessage"
  /\ \E svc \in PlainAnswers, S \in SUBSET QueuedMsgs :
       /\ Cardinality(S) <= MaxNumberOfMessages
       /\ IF CtxAnswer(svc).transport
          THEN /\ pc' = "Sleep"
               /\ err' = "failed to receive messages"
               /\ UNCHANGED batch
          ELSE /\ pc' = "range"
               /\ err' = ""
               /\ batch' = SetToSeq(S)
  /\ UNCHANGED << lastAttempt, queueVars, registry, cancelled, message,
                  appMessage, items, selectedLambda, calls >>

\* pollMessages: time.Sleep(5 * time.Second), then return to the loop.
sleep ==
  /\ pc = "Sleep"
  /\ pc' = "Start"
  /\ err' = ""
  /\ UNCHANGED << lastAttempt, queueVars, registry, cancelled, batch, message,
                  appMessage, items, selectedLambda, calls >>

\* What processMessage and deleteMessage have logged about the attempt that
\* just returned: nothing more to come for a deleted message, "Error
\* processing message", "Message receipt handle is nil, cannot delete" or
\* "Error deleting message".
attemptLog ==
  IF message = <<>> THEN lastAttempt
  ELSE IF queueState[message[1].MessageId] = "deleted" THEN <<>>
  ELSE IF err # "" THEN << message[1].MessageId, "deferred" >>
  ELSE IF message[1].ReceiptHandle = None
  THEN << message[1].MessageId, "nohandle" >>
  ELSE << message[1].MessageId, "deletefailed" >>

\* Mutant: the loop walks result.Messages from the end.
rangeFromTheEnd ==
  /\ pc = "range"
  /\ IF batch = <<>>
     THEN /\ pc' = "Start"
          /\ message' = <<>>
          /\ batch' = batch
     ELSE /\ pc' = "processMessage"
          /\ \E h \in BOOLEAN : message' = << Delivery(batch[Len(batch)], h) >>
          /\ batch' = SubSeq(batch, 1, Len(batch) - 1)
  /\ calls' = <<>>
  /\ appMessage' = "nil"
  /\ items' = <<>>
  /\ selectedLambda' = 0
  /\ err' = ""
  /\ lastAttempt' = attemptLog
  /\ UNCHANGED << queueVars, registry, cancelled >>

\* pollMessages: for _, message := range result.Messages.  Nothing reads a
\* delivery before the loop reaches it, so its fields are fixed here.
range ==
  /\ pc = "range"
  /\ IF batch = <<>>
     THEN /\ pc' = "Start"
          /\ message' = <<>>
          /\ batch' = batch
     ELSE /\ pc' = "processMessage"
          /\ \E h \in BOOLEAN : message' = << Delivery(Head(batch), h) >>
          /\ batch' = Tail(batch)
  /\ calls' = <<>>
  /\ appMessage' = "nil"
  /\ items' = <<>>
  /\ selectedLambda' = 0
  /\ err' = ""
  /\ lastAttempt' = attemptLog
  /\ UNCHANGED << queueVars, registry, cancelled >>

\* Mutant: a body that does not decode is left on the queue.
processMessageKeepsUndecodable ==
  /\ pc = "processMessage"
  /\ LET body == message[1].Body IN
       IF body = None
       THEN /\ pc' = "deleteMessage"
            /\ UNCHANGED appMessage
       ELSE IF jsonUnmarshal(body[1]).err
       THEN /\ pc' = "range"
            /\ UNCHANGED appMessage
       ELSE /\ pc' = "InvokeIntegrity"
            /\ appMessage' = jsonUnmarshal(body[1]).val
  /\ lastAttempt' = <<>>
  /\ UNCHANGED << queueVars, registry, cancelled, batch, message, items,
                  selectedLambda, err, calls >>

\* processMessage up to the call of handleBusinessLogic: "Processing
\* message" starts the log of a new attempt; nil check, decode.
processMessage ==
  /\ pc = "processMessage"
  /\ LET body == message[1].Body IN
       IF body = None
       THEN /\ pc' = "deleteMessage"
            /\ UNCHANGED appMessage
       ELSE IF jsonUnmarshal(body[1]).err
       THEN /\ pc' = "deleteMessage"
            /\ UNCHANGED appMessage
       ELSE /\ pc' = "InvokeIntegrity"
            /\ appMessage' = jsonUnmarshal(body[1]).val
  /\ lastAttempt' = <<>>
  /\ UNCHANGED << queueVars, registry, cancelled, batch, message, items,
                  selectedLambda, err, calls >>

\* Mutant: processMessage deletes the message when the gate rejects it.
hblIntegrityDeletesOnError ==
  /\ pc = "InvokeIntegrity"
  /\ \E svc \in ValidatorAnswers :
       LET e == integrityErr(CtxAnswer(svc)) IN
         /\ calls' = Append(calls, Call("validator", IntegrityLambda,
                                        jsonMarshal(appMessage), svc, e = "",
                                        integrityErr(svc) = ""))
         /\ err' = e
         /\ pc' = IF e = "" THEN "Scan" ELSE "deleteMessage"
  /\ UNCHANGED << lastAttempt, queueVars, registry, cancelled, batch, message, appMessage,
                  items, selectedLambda >>

\* Mutant: the error of the integrity gate is dropped.
hblIntegrityIgnoresErr ==
  /\ pc = "InvokeIntegrity"
  /\ \E svc \in ValidatorAnswers :
       LET e == integrityErr(CtxAnswer(svc)) IN
         /\ calls' = Append(calls, Call("validator", IntegrityLambda,
                                        jsonMarshal(appMessage), svc, e = "",
                                        integrityErr(svc) = ""))
         /\ err' = ""
         /\ pc' = "Scan"
  /\ UNCHANGED << lastAttempt, queueVars, registry, cancelled, batch, message, appMessage,
                  items, selectedLambda >>

\* handleBusinessLogic: the validator call and the integrity gate.
hblIntegrity ==
  /\ pc = "InvokeIntegrity"
  /\ \E svc \in ValidatorAnswers :
       LET e == integrityErr(CtxAnswer(svc)) IN
         /\ calls' = Append(calls, Call("validator", IntegrityLambda,
                                        jsonMarshal(appMessage), svc, e = "",
                                        integrityErr(svc) = ""))
         /\ err' = e
         /\ pc' = IF e = "" THEN "Scan" ELSE "range"
  /\ UNCHANGED << lastAttempt, queueVars, registry, cancelled, batch, message, appMessage,
                  items, selectedLambda >>

\* Mutant: after the scan the records are written back as Unhealthy.
hblScanWritesTable ==
  /\ pc = "Scan"
  /\ \E svc \in PlainAnswers, bad \in 0..Len(registry) :
       LET a == CtxAnswer(svc) IN
         /\ calls' = Append(calls, Call("scan", 0, <<>>, svc, ~a.transport,
                                        ~svc.transport))
         /\ IF a.transport
            THEN /\ err' = "item not found"
                 /\ items' = <<>>
                 /\ pc' = "range"
                 /\ UNCHANGED registry
            ELSE /\ err' = ""
                 /\ items' = ScanItems(bad)
                 /\ pc' = "Filter"
                 /\ registry' = [i \in 1..Len(registry) |-> Unhealthy]
  /\ UNCHANGED << lastAttempt, queueVars, cancelled, batch, message, appMessage,
                  selectedLambda >>

\* handleBusinessLogic: the registry scan.
hblScan ==
  /\ pc = "Scan"
  /\ \E svc \in PlainAnswers, bad \in 0..Len(registry) :
       LET a == CtxAnswer(svc) IN
         /\ calls' = Append(calls, Call("scan", 0, <<>>, svc, ~a.transport,
                                        ~svc.transport))
         /\ IF a.transport
            THEN /\ err' = "item not found"
                 /\ items' = <<>>
                 /\ pc' = "range"
            ELSE /\ err' = ""
                 /\ items' = ScanItems(bad)
                 /\ pc' = "Filter"
  /\ UNCHANGED << lastAttempt, queueVars, registry, cancelled, batch, message, appMessage,
                  selectedLambda >>

\* Mutant: the loop skips a record that does not decode instead of
\* returning the error.
hblSelectSkipsUndecodable ==
  /\ pc = "Filter"
  /\ LET decoded == SelectSeq(items, LAMBDA it : ~unmarshalMapErr(it)) IN
       IF Len(filterHealthy(decoded)) = 0
       THEN /\ err' = "no healthy lambdas found"
            /\ items' = <<>>
            /\ selectedLambda' = 0
            /\ pc' = "range"
       ELSE /\ \E l \in selectLambda(filterHealthy(decoded)) :
                 selectedLambda' = l.arn
            /\ pc' = "InvokeWorker"
            /\ UNCHANGED << err, items >>
  /\ UNCHANGED << lastAttempt, queueVars, registry, cancelled, batch, message,
                  appMessage, calls >>

\* handleBusinessLogic: decoding of the records, health filter and selection.
\* The locals of handleBusinessLogic are gone when it returns.
hblSelect ==
  /\ pc = "Filter"
  /\ IF anyUnmarshalErr(items)
     THEN /\ err' = "failed to unmarshal item"
          /\ items' = <<>>
          /\ selectedLambda' = 0
          /\ pc' = "range"
     ELSE IF Len(filterHealthy(items)) = 0
     THEN /\ err' = "no healthy lambdas found"
          /\ items' = <<>>
          /\ selectedLambda' = 0
          /\ pc' = "range"
     ELSE /\ \E l \in selectLambda(filterHealthy(items)) :
               selectedLambda' = l.arn
          /\ pc' = "InvokeWorker"
          /\ UNCHANGED << err, items >>
  /\ UNCHANGED << lastAttempt, queueVars, registry, cancelled, batch, message, appMessage,
                  calls >>

\* Mutant: processMessage returns after a successful dispatch without
\* calling deleteMessage.
hblInvokeSkipsDelete ==
  /\ pc = "InvokeWorker"
  /\ \E svc \in WorkerAnswers :
       LET ok == ~InvokeSyncErr(CtxAnswer(svc)) IN
         /\ calls' = Append(calls, Call("invoke", selectedLambda,
                                        jsonMarshal(appMessage), svc, ok,
                                        ~InvokeSyncErr(svc)))
         /\ err' = IF ok THEN "" ELSE "error invoking lambda"
         /\ pc' = "range"
  /\ items' = <<>>
  /\ selectedLambda' = 0
  /\ UNCHANGED << lastAttempt, queueVars, registry, cancelled, batch, message, appMessage >>

\* Mutant: the worker is invoked with the validator's verdict.
hblInvokePassesVerdict ==
  /\ pc = "InvokeWorker"
  /\ \E svc \in WorkerAnswers :
       LET ok == ~InvokeSyncErr(CtxAnswer(svc)) IN
         /\ calls' = Append(calls, Call("invoke", selectedLambda,
                                        << "{", "}" >>, svc, ok,
                                        ~InvokeSyncErr(svc)))
         /\ err' = IF ok THEN "" ELSE "error invoking lambda"
         /\ pc' = IF ok THEN "deleteMessage" ELSE "range"
  /\ items' = <<>>
  /\ selectedLambda' = 0
  /\ UNCHANGED << lastAttempt, queueVars, registry, cancelled, batch, message, appMessage >>

\* Mutant: a failed dispatch ends the loop over the batch.
hblInvokeBreaksOnError ==
  /\ pc = "InvokeWorker"
  /\ \E svc \in WorkerAnswers :
       LET ok == ~InvokeSyncErr(CtxAnswer(svc)) IN
         /\ calls' = Append(calls, Call("invoke", selectedLambda,
                                        jsonMarshal(appMessage), svc, ok,
                                        ~InvokeSyncErr(svc)))
         /\ err' = IF ok THEN "" ELSE "error invoking lambda"
         /\ pc' = IF ok THEN "deleteMessage" ELSE "range"
         /\ batch' = IF ok THEN batch ELSE <<>>
  /\ items' = <<>>
  /\ selectedLambda' = 0
  /\ UNCHANGED << lastAttempt, queueVars, registry, cancelled, message, appMessage >>

\* handleBusinessLogic: the worker call.
hblInvoke ==
  /\ pc = "InvokeWorker"
  /\ \E svc \in WorkerAnswers :
       LET ok == ~InvokeSyncErr(CtxAnswer(svc)) IN
         /\ calls' = Append(calls, Call("invoke", selectedLambda,
                                        jsonMarshal(appMessage), svc, ok,
                                        ~InvokeSyncErr(svc)))
         /\ err' = IF ok THEN "" ELSE "error invoking lambda"
         /\ pc' = IF ok THEN "deleteMessage" ELSE "range"
  /\ items' = <<>>
  /\ selectedLambda' = 0
  /\ UNCHANGED << lastAttempt, queueVars, registry, cancelled, batch, message, appMessage >>

\* Mutant: the nil test on the receipt handle is inverted.
deleteMessageInvertedNilTest ==
  /\ pc = "deleteMessage"
  /\ IF message[1].ReceiptHandle # None
     THEN UNCHANGED calls
     ELSE calls' = Append(calls, Call("delete", 0, <<>>, TransportError, FALSE,
                                     FALSE))
  /\ pc' = "range"
  /\ UNCHANGED << lastAttempt, queueVars, registry, cancelled, batch, message, localVars >>

\* Mutant: a failed delete call is made a second time.
deleteMessageRetries ==
  /\ pc = "deleteMessage"
  /\ IF message[1].ReceiptHandle = None
     THEN UNCHANGED << queueVars, calls >>
     ELSE \E svc \in PlainAnswers :
            LET ok == ~CtxAnswer(svc).transport
                m == message[1].ReceiptHandle[1]
                c == Call("delete", 0, <<>>, svc, ok, ~svc.transport)
            IN /\ calls' = IF ok THEN Append(calls, c) ELSE calls \o << c, c >>
               /\ queueState' = IF ok THEN [queueState EXCEPT ![m] = "deleted"]
                                ELSE queueState
               /\ queueBody' = IF ok THEN [queueBody EXCEPT ![m] = None]
                               ELSE queueBody
  /\ pc' = "range"
  /\ UNCHANGED << lastAttempt, registry, cancelled, batch, message, localVars >>

\* Mutant: the nil test on the receipt handle is missing; the queue rejects
\* a delete without a handle.
deleteMessageWithoutNilTest ==
  /\ pc = "deleteMessage"
  /\ \E svc \in PlainAnswers :
       LET h == message[1].ReceiptHandle
           ok == h # None /\ ~CtxAnswer(svc).transport
           m == message[1].MessageId
       IN /\ calls' = Append(calls, Call("delete", 0, <<>>,
                                         IF h = None THEN TransportError ELSE svc,
                                         ok, h # None /\ ~svc.transport))
          /\ queueState' = IF ok THEN [queueState EXCEPT ![m] = "deleted"]
                           ELSE queueState
          /\ queueBody' = IF ok THEN [queueBody EXCEPT ![m] = None]
                          ELSE queueBody
  /\ pc' = "range"
  /\ UNCHANGED << lastAttempt, registry, cancelled, batch, message, localVars >>

\* deleteMessage: skipped without a receipt handle; a failure is only logged.
\* The queue destroys a deleted message.
deleteMessage ==
  /\ pc = "deleteMessage"
  /\ IF message[1].ReceiptHandle = None
     THEN UNCHANGED << queueVars, calls >>
     ELSE \E svc \in PlainAnswers :
            LET ok == ~CtxAnswer(svc).transport
                m == message[1].ReceiptHandle[1]
            IN /\ calls' = Append(calls, Call("delete", 0, <<>>, svc, ok,
                                              ~svc.transport))
               /\ queueState' = IF ok THEN [queueState EXCEPT ![m] = "deleted"]
                                ELSE queueState
               /\ queueBody' = IF ok THEN [queueBody EXCEPT ![m] = None]
                               ELSE queueBody
  /\ pc' = "range"
  /\ UNCHANGED << lastAttempt, registry, cancelled, batch, message, localVars >>

Consumer ==
  \/ Start
  \/ pollMessages
  \/ sleep
  \/ range
  \/ processMessage
  \/ hblIntegrity
  \/ hblScan
  \/ hblSelect
  \/ hblInvoke
  \/ deleteMessage

Environment ==
  \/ \E t \in Tables : Heartbeat(t)
  \/ Cancel

Next == Consumer \/ Environment

Spec == Init /\ [][Next]_vars

\* The consumer goroutine keeps running: every call returns.
FairSpec == Spec /\ WF_vars(Consumer)

\* ---------------------------------------------------------------- claims
\* processMessage has returned for the current message.
AttemptDone == pc = "range" /\ message # <<>>

CallsOf(op) == { i \in 1..Len(calls) : calls[i].op = op }

\* The body is present and is a JSON document.
Decodes(body) == body # None /\ StripSpace(body[1]) \in { <<"n">>, <<"{", "}">>, <<"null">> }

\* The answer is a response without FunctionError whose payload is a JSON
\* object with the number 200 as statusCode.
Accepts(a) ==
  /\ ~a.transport
  /\ ~a.FunctionError
  /\ a.json = "object"
  /\ a.statusCode = "200"

\* The answer is a response without FunctionError.
Succeeds(a) == ~a.transport /\ ~a.FunctionError

HealthyIn(its) == { i \in 1..Len(its) : its[i].estadoSalud = Healthy }

CurrentId == message[1].MessageId

\* C1 (as stated): after an attempt whose body decoded, whose integrity check
\* passed and whose dispatch succeeded, the message is gone from the queue.
C1_AckedAfterDispatch ==
  (AttemptDone /\ \E i \in CallsOf("invoke") : calls[i].ok)
    => queueState[CurrentId] = "deleted"

\* C1 (amended): after such an attempt exactly one delete call was issued when
\* the delivery carries a handle (none otherwise); if that call succeeded the
\* message is gone from the queue, and a message that is gone is never part
\* of a later batch nor the subject of a new attempt.
C1_DeleteOnceAfterDispatch ==
  /\ (AttemptDone /\ \E i \in CallsOf("invoke") : calls[i].ok)
       => /\ Cardinality(CallsOf("delete"))
               = IF message[1].ReceiptHandle = None THEN 0 ELSE 1
          /\ \A i \in CallsOf("delete") :
               Succeeds(calls[i].answer) => queueState[CurrentId] = "deleted"
  /\ \A m \in MsgIds :
       queueState[m] = "deleted"
         => /\ \A i \in 1..Len(batch) : batch[i] # m
            /\ (message # <<>> /\ CurrentId = m) => pc = "range"

C1_Witness ==
  /\ AttemptDone
  /\ \E i \in CallsOf("invoke") : calls[i].ok
  /\ \E i \in CallsOf("delete") : calls[i].ok
  /\ queueState[CurrentId] = "deleted"

\* C2: the integrity gate passes (the attempt goes on to the registry scan)
\* exactly when the validator call returned a response without error whose
\* payload parses with statusCode 200; otherwise the attempt ends with the
\* validator call as its only call and the message still queued.
C2_IntegrityGate ==
  \A i \in CallsOf("validator") :
    IF Accepts(calls[i].answer)
    THEN pc = "Scan" \/ Len(calls) > i
    ELSE /\ pc = "range"
         /\ Len(calls) = i
         /\ queueState[CurrentId] = "queued"

C2_Witness ==
  /\ AttemptDone
  /\ \E i \in CallsOf("validator") :
       /\ Succeeds(calls[i].answer)
       /\ calls[i].answer.statusCode = "500"

\* The step appends a call of this kind to the log.
NewCall(op) ==
  /\ Len(calls') = Len(calls) + 1
  /\ calls'[Len(calls')].op = op

\* handleBusinessLogic leaves the health filter and selection.
SelectStep == pc = "Filter" /\ pc' # "Filter"

\* C3: when the scan returns no record flagged Healthy (none at all, or only
\* Unhealthy ones), handleBusinessLogic returns an error without a worker
\* call; an attempt that ended with an error has no successful worker call,
\* no delete call, and its message is still queued.
C3_NoHealthyNoDispatch ==
  /\ [][ (SelectStep /\ HealthyIn(items) = {})
           => /\ pc' = "range"
              /\ err' # ""
              /\ selectedLambda' = 0
              /\ CallsOf("invoke") = {}
              /\ calls' = calls
              /\ queueState' = queueState ]_vars
  /\ []( (AttemptDone /\ err # "")
           => /\ \A i \in CallsOf("invoke") : ~calls[i].ok
              /\ CallsOf("delete") = {}
              /\ queueState[CurrentId] = "queued" )

C3_Witness ==
  /\ AttemptDone
  /\ err = "no healthy lambdas found"
  /\ Len(registry) > 0

\* C4: every selection picks, and every worker call targets, a record the
\* scan of this attempt returned with estadoSalud Healthy.
C4_SelectedIsHealthy ==
  [][ /\ (SelectStep /\ pc' = "InvokeWorker")
           => selectedLambda' \in HealthyIn(items)
      /\ NewCall("invoke")
           => calls'[Len(calls')].target \in HealthyIn(items) ]_vars

C4_Witness ==
  /\ pc = "InvokeWorker"
  /\ selectedLambda \in HealthyIn(items)
  /\ \E j \in 1..Len(items) : items[j].estadoSalud = Unhealthy

\* C5: when the scan of the attempt returned exactly one Healthy record (and
\* every record decoded), that record is the one selected and the target of
\* the worker call.
C5_SingleHealthySelected ==
  [][ /\ ( /\ SelectStep
           /\ \A j \in 1..Len(items) : items[j].wellTyped
           /\ Cardinality(HealthyIn(items)) = 1 )
           => /\ pc' = "InvokeWorker"
              /\ { selectedLambda' } = HealthyIn(items)
      /\ (NewCall("invoke") /\ Cardinality(HealthyIn(items)) = 1)
           => { calls'[Len(calls')].target } = HealthyIn(items) ]_vars

C5_Witness ==
  /\ pc = "InvokeWorker"
  /\ Len(items) > 1
  /\ Cardinality(HealthyIn(items)) = 1
  /\ { selectedLambda } = HealthyIn(items)

\* C6 (as stated): after an attempt on a message whose body is absent, empty
\* or not JSON, the message is gone from the queue.
C6_UndecodableAlwaysDeleted ==
  (AttemptDone /\ ~Decodes(message[1].Body))
    => queueState[CurrentId] = "deleted"

\* C6 (amended): an attempt on a message whose body is absent, empty or not
\* JSON makes no validator, registry or worker call; its only call is the
\* delete call (issued when the delivery carries a handle), and the message
\* is gone from the queue when that call succeeds.
C6_UndecodableDropped ==
  (message # <<>> /\ ~Decodes(message[1].Body))
    => /\ CallsOf("validator") = {}
       /\ CallsOf("scan") = {}
       /\ CallsOf("invoke") = {}
       /\ pc \in { "processMessage", "deleteMessage", "range" }
       /\ pc = "range"
            => /\ Len(calls) = IF message[1].ReceiptHandle = None THEN 0 ELSE 1
               /\ \A i \in 1..Len(calls) :
                    /\ calls[i].op = "delete"
                    /\ Succeeds(calls[i].answer)
                         => queueState[CurrentId] = "deleted"

C6_Witness ==
  /\ AttemptDone
  /\ message[1].Body = Some(<<"{">>)
  /\ queueState[CurrentId] = "deleted"

\* C7: when the worker call fails (transport error or FunctionError in the
\* response) the attempt ends there: no delete call, message still queued.
C7_DispatchFailureDefers ==
  \A i \in CallsOf("invoke") :
    (calls[i].answer.transport \/ calls[i].answer.FunctionError)
      => /\ pc = "range"
         /\ Len(calls) = i
         /\ CallsOf("delete") = {}
         /\ queueState[CurrentId] = "queued"

C7_Witness ==
  /\ AttemptDone
  /\ \E i \in CallsOf("invoke") : calls[i].answer.FunctionError

\* C8: every step that removes a message from the queue removes a message
\* whose body does not decode, or one whose decoded payload a worker has
\* answered successfully in the attempt that removes it.
C8_AtLeastOnce ==
  [][ \A m \in MsgIds :
        (queueState[m] = "queued" /\ queueState'[m] = "deleted")
          => \/ ~Decodes(queueBody[m])
             \/ \E i \in CallsOf("invoke") :
                  /\ Succeeds(calls[i].answer)
                  /\ calls[i].payload = jsonMarshal(jsonUnmarshal(queueBody[m][1]).val)
                  /\ message[1].MessageId = m ]_vars

C8_Witness ==
  /\ AttemptDone
  /\ Decodes(message[1].Body)
  /\ queueState[CurrentId] = "deleted"

\* C9: Start returns only after the signal has fired; once the signal has
\* fired no new poll cycle is started; and after the signal Start eventually
\* returns.
C9_StartReturnsAfterCancel ==
  /\ [](pc = "done" => cancelled)
  /\ [][cancelled => ~(pc = "Start" /\ pc' = "ReceiveMessage")]_vars
  /\ (cancelled ~> pc = "done")

C9_Witness ==
  /\ pc = "done"
  /\ cancelled

\* C10 (as stated): the signal does not change the outcome of a pipeline that
\* is in flight: each attempt goes as far as the services' answers take it.
\* Every call has the outcome the answer of its service gives it: a
\* validator answer that accepts is followed by the registry scan, a worker
\* answer that succeeds by the delete call (when there is a handle), and a
\* delete the queue accepts removes the message.
C10_SignalLeavesPipelineAlone ==
  AttemptDone =>
    \A i \in 1..Len(calls) :
      /\ calls[i].ok = calls[i].svcOk
      /\ (calls[i].op = "validator" /\ calls[i].svcOk) => Len(calls) > i
      /\ (calls[i].op = "invoke" /\ calls[i].svcOk
            /\ message[1].ReceiptHandle # None) => Len(calls) > i
      /\ (calls[i].op = "delete" /\ calls[i].svcOk)
            => queueState[CurrentId] = "deleted"

\* The log says the preceding attempt left message m queued with outcome k.
LeftQueued(m, k) == lastAttempt = << m, k >>

\* C11: for a delivery without a receipt handle no delete call is issued on
\* any path of the attempt (decode failure or successful dispatch), and the
\* message stays on the queue with its body; a message that an attempt left
\* behind for lack of a handle is still queued when the next attempt begins,
\* so the queue delivers it again and it is processed again.
C11_NoHandleNoDelete ==
  /\ (message # <<>> /\ message[1].ReceiptHandle = None)
       => /\ CallsOf("delete") = {}
          /\ queueState[CurrentId] = "queued"
          /\ queueBody[CurrentId] = message[1].Body
  /\ \A m \in MsgIds : LeftQueued(m, "nohandle") => m \in QueuedMsgs

C11_Witness ==
  /\ pc = "processMessage"
  /\ LeftQueued(CurrentId, "nohandle")

\* C12: when the receive call fails the cycle goes to sleep with nothing to
\* process (no batch, no message, no call), the sleep changes nothing and
\* returns to the loop, and the loop then starts the next receive, or
\* returns when the context is cancelled.
C12_ReceiveFailureSkipsCycle ==
  /\ [](err = "failed to receive messages"
          => /\ pc = "Sleep"
             /\ batch = <<>>
             /\ message = <<>>
             /\ calls = <<>>)
  /\ [][pc = "Sleep"
          => /\ pc' \in { "Sleep", "Start" }
             /\ UNCHANGED << queueVars, batch, message, calls >>]_vars
  /\ [][(pc = "Start" /\ pc' # pc)
          => pc' = IF cancelled THEN "done" ELSE "ReceiveMessage"]_vars

C12_Witness ==
  /\ pc = "Sleep"
  /\ ~cancelled
  /\ QueuedMsgs # {}

\* C13: the messages of a batch are processed one at a time in receipt
\* order: an attempt begins only when the previous one has returned, it takes
\* the first message still waiting, the waiting ones all come later in the
\* batch, calls are made only for the message at hand, and a receive call is
\* made only when no message of the batch is waiting or at hand.
C13_SequentialInOrder ==
  /\ [](\A i \in 1..Len(batch) :
          /\ \A j \in 1..Len(batch) : i < j => batch[i] < batch[j]
          /\ message # <<>> => CurrentId < batch[i])
  /\ [](pc \in { "Start", "ReceiveMessage", "Sleep", "done" }
          => batch = <<>> /\ message = <<>> /\ calls = <<>>)
  /\ [][(pc' = "processMessage" /\ pc # pc')
          => /\ pc = "range"
             /\ batch # <<>>
             /\ message'[1].MessageId = Head(batch)
             /\ batch' = Tail(batch)
             /\ calls' = <<>>]_vars
  /\ [][(calls' # calls /\ calls' # <<>>)
          => /\ message # <<>>
             /\ message' = message
             /\ batch' = batch
             /\ SubSeq(calls', 1, Len(calls)) = calls]_vars

C13_Witness ==
  /\ AttemptDone
  /\ Len(calls) > 0
  /\ batch # <<>>

\* C14: the registry table is never written by a step of the consumer (a
\* step that changes the table leaves the consumer and the queue where they
\* are), the consumer's calls are validator, scan, worker and delete calls
\* only, and a scan that succeeds reads every record of the table as it is.
C14_RegistryReadOnly ==
  /\ [][registry' # registry
          => UNCHANGED << pc, calls, queueVars, batch, message, localVars,
                          lastAttempt, cancelled >>]_vars
  /\ [][(NewCall("scan") /\ calls'[Len(calls')].ok)
          => /\ registry' = registry
             /\ Len(items') = Len(registry)
             /\ \A i \in 1..Len(registry) :
                  /\ items'[i].arn = i
                  /\ items'[i].estadoSalud = registry[i]]_vars
  /\ [](\A i \in 1..Len(calls) :
          calls[i].op \in { "validator", "scan", "invoke", "delete" })

C14_Witness ==
  /\ pc = "Filter"
  /\ Len(items) > 1
  /\ Len(items) = Len(registry)
  /\ \A i \in 1..Len(items) : items[i].estadoSalud = registry[i]

\* C15: a delete call that fails is the last call of its attempt and its
\* only delete call (no retry); processMessage returns without an error and
\* the loop is back at the batch, which the delete did not touch; the
\* message is still queued with its body, so that it is received and (its
\* body decoding as before) dispatched again.
C15_DeleteFailureOnlyLogged ==
  /\ [](\A i \in CallsOf("delete") :
          ~calls[i].ok
            => /\ pc = "range"
               /\ i = Len(calls)
               /\ Cardinality(CallsOf("delete")) = 1
               /\ err = ""
               /\ queueState[CurrentId] = "queued"
               /\ queueBody[CurrentId] = message[1].Body)
  /\ [][(pc = "deleteMessage" /\ pc' # pc)
          => pc' = "range" /\ batch' = batch]_vars
  /\ [](\A m \in MsgIds : LeftQueued(m, "deletefailed") => m \in QueuedMsgs)

C15_Witness ==
  /\ pc = "processMessage"
  /\ LeftQueued(CurrentId, "deletefailed")
  /\ Decodes(message[1].Body)

\* Position of a call in the pipeline.
Rank(op) ==
  IF op = "validator" THEN 1
  ELSE IF op = "scan" THEN 2
  ELSE IF op = "invoke" THEN 3
  ELSE 4

\* C16: the calls of an attempt come in the order validator, scan, worker,
\* delete, each at most once; every call but the last succeeded; a scan
\* follows a validator call, a worker call follows a validator call and a
\* scan and targets a worker, and for a body that decodes the delete call
\* follows all three.
C16_CallOrder ==
  /\ \A i \in 1..Len(calls) : \A j \in 1..Len(calls) :
       i < j => Rank(calls[i].op) < Rank(calls[j].op)
  /\ \A i \in 1..Len(calls) : i < Len(calls) => calls[i].ok
  /\ \A i \in CallsOf("scan") : i = 2 /\ calls[1].op = "validator"
  /\ \A i \in CallsOf("invoke") :
       /\ i = 3
       /\ calls[1].op = "validator"
       /\ calls[2].op = "scan"
       /\ calls[i].target # IntegrityLambda
  /\ \A i \in CallsOf("delete") :
       (message # <<>> /\ Decodes(message[1].Body)) => i = 4

C16_Witness ==
  /\ AttemptDone
  /\ Len(calls) = 4
  /\ calls[4].op = "delete"

\* C17: a message that an attempt deferred is still queued, with a body that
\* decodes, when the next attempt begins; and an attempt goes all the way
\* whenever its answers allow it: a validator answer that accepts is
\* followed by the scan, a scan whose records decode and hold a Healthy one
\* by a worker call, a worker call that succeeds by the delete call (given a
\* handle), and a delete call that succeeds removes the message.
C17_DeferredThenAcknowledged ==
  /\ [](\A m \in MsgIds :
          LeftQueued(m, "deferred")
            => m \in QueuedMsgs /\ Decodes(queueBody[m]))
  /\ [](\A i \in 1..Len(calls) :
          /\ (calls[i].op = "validator" /\ Accepts(calls[i].answer))
               => (pc = "Scan" \/ Len(calls) > i)
          /\ (calls[i].op = "invoke" /\ Succeeds(calls[i].answer))
               => \/ pc = "deleteMessage"
                  \/ message[1].ReceiptHandle = None
                  \/ Len(calls) > i
          /\ (calls[i].op = "delete" /\ Succeeds(calls[i].answer))
               => queueState[CurrentId] = "deleted")
  /\ [][(SelectStep /\ ~anyUnmarshalErr(items) /\ HealthyIn(items) # {})
          => pc' = "InvokeWorker"]_vars

C17_Witness ==
  /\ pc = "processMessage"
  /\ LeftQueued(CurrentId, "deferred")

\* C18: when the scan returned more than one Healthy record (and every
\* record decoded), each of them can be the one selected, and the one
\* selected is always one of them.
C18_EveryHealthySelectable ==
  /\ (pc = "Filter" /\ ~anyUnmarshalErr(items)
        /\ Cardinality(HealthyIn(items)) > 1)
       => \A h \in HealthyIn(items) :
            ENABLED (hblSelect /\ selectedLambda' = h)
  /\ pc = "InvokeWorker" => selectedLambda \in HealthyIn(items)

C18_Witness ==
  /\ pc = "InvokeWorker"
  /\ Cardinality(HealthyIn(items)) > 1
  /\ \A h \in HealthyIn(items) : h <= selectedLambda

\* The text of the validator's verdict.
Verdict(a) == IF a.json = "object" THEN << "{", "}" >> ELSE <<>>

\* C19: the payload of the worker call is the payload of the validator call
\* of the same attempt, namely the encoding of the decoded body; it is not
\* the validator's verdict, and the decoded body is the same at every step
\* between the two calls.
C19_SamePayload ==
  /\ \A i \in CallsOf("invoke") :
       /\ \E j \in CallsOf("validator") :
            /\ j < i
            /\ calls[i].payload = calls[j].payload
            /\ calls[i].payload # Verdict(calls[j].answer)
       /\ calls[i].payload
            = jsonMarshal(jsonUnmarshal(message[1].Body[1]).val)
  /\ pc \in { "InvokeIntegrity", "Scan", "Filter", "InvokeWorker" }
       => appMessage = jsonUnmarshal(message[1].Body[1]).val

C19_Witness ==
  /\ pc = "deleteMessage"
  /\ Len(calls) = 3
  /\ Accepts(calls[1].answer)
  /\ calls[1].payload = << "n" >>
  /\ calls[3].payload = << "n" >>

\* C20: an attempt begins with nothing left over from the previous one; no
\* step of an attempt touches the rest of the batch or another message on
\* the queue; whatever the outcome, the loop goes on to the next message of
\* the batch; and whether the message is deleted is decided by its own
\* body, handle and the answers to its own calls.
C20_MessagesIndependent ==
  /\ [](pc = "processMessage"
          => /\ calls = <<>>
             /\ appMessage = "nil"
             /\ items = <<>>
             /\ selectedLambda = 0
             /\ err = "")
  /\ [][(pc \in { "processMessage", "InvokeIntegrity", "Scan", "Filter",
                   "InvokeWorker", "deleteMessage" })
          => /\ batch' = batch
             /\ \A m \in MsgIds \ { CurrentId } :
                  /\ queueState'[m] = queueState[m]
                  /\ queueBody'[m] = queueBody[m]]_vars
  /\ [][(pc = "range" /\ batch # <<>> /\ pc' # pc)
          => /\ pc' = "processMessage"
             /\ message'[1].MessageId = Head(batch)
             /\ message'[1].Body = queueBody[Head(batch)]]_vars
  /\ [](AttemptDone
          => /\ (CallsOf("delete") # {})
                  = /\ message[1].ReceiptHandle # None
                    /\ \/ ~Decodes(message[1].Body)
                       \/ \E i \in CallsOf("invoke") : Succeeds(calls[i].answer)
             /\ (queueState[CurrentId] = "deleted")
                  = \E i \in CallsOf("delete") : Succeeds(calls[i].answer))

C20_Witness ==
  /\ pc = "processMessage"
  /\ lastAttempt # <<>>
  /\ lastAttempt[1] < CurrentId
  /\ lastAttempt[2] = "deferred"

\* C21: when the scan call fails, or a record it returned does not decode
\* (whether or not other records are Healthy), handleBusinessLogic returns an
\* error there: the scan is the last call of the attempt, there is no worker
\* call and no delete call, and the message is still queued with its body.
C21_ScanFailureDefers ==
  /\ [](\A i \in CallsOf("scan") :
          calls[i].answer.transport
            => /\ pc = "range"
               /\ err # ""
               /\ Len(calls) = i)
  /\ [][(SelectStep /\ anyUnmarshalErr(items))
          => /\ pc' = "range"
             /\ err' = "failed to unmarshal item"
             /\ calls' = calls
             /\ queueVars' = queueVars]_vars
  /\ []((AttemptDone /\ err \in { "item not found", "failed to unmarshal item" })
          => /\ calls[Len(calls)].op = "scan"
             /\ CallsOf("invoke") = {}
             /\ CallsOf("delete") = {}
             /\ queueState[CurrentId] = "queued"
             /\ queueBody[CurrentId] = message[1].Body)

C21_Witness ==
  /\ AttemptDone
  /\ err = "failed to unmarshal item"
  /\ message[1].ReceiptHandle # None
  /\ \E j \in 1..Len(registry) : registry[j] = Healthy

====
